---- MODULE Spec2Model ----
(***************************************************************************)
(* Widget request consumer (src/consumer.py): a polling loop that fetches  *)
(* widget change requests from an SQS queue or an S3 bucket and applies    *)
(* them to an S3 bucket (blob store) and a DynamoDB table (record store).  *)
(*                                                                         *)
(* Strings that the code inspects or concatenates (owner, widget id, S3    *)
(* keys) are sequences of one-character strings.  Every value stored in a  *)
(* request or a table item is such a sequence.                             *)
(***************************************************************************)
EXTENDS Integers, Sequences, FiniteSets, TLC

VARIABLES
    sourceKind,     \* "sqs" or "s3": which source client main() built
    bucket,         \* the S3 bucket of the S3Client: key -> body
    table,          \* the DynamoDB table: <<widget_id, owner>> -> item
    queue,          \* the SQS queue: message id -> Body
    invisible,      \* ids of queue messages received and not yet visible again
    nsent,          \* requests the producer has submitted so far
    message_cache,  \* SQSClient.message_cache
    pc,             \* position of Consumer.run: "fetch", "process", "crashed"
    request,        \* the local `request` of Consumer.run
    calls,          \* backend API calls made by the last loop step, in order
    result,         \* what the last process_widget_request did (history)
    batch,          \* Messages of the last receive_message response (history)
    returned        \* messages get_next_widget_request returned since (history)

vars == <<sourceKind, bucket, table, queue, invisible, nsent, message_cache,
          pc, request, calls, result, batch, returned>>

(***************************************************************************)
(* Bounds of the model.                                                    *)
(***************************************************************************)
MaxMsgs == 2

\* the longest owner string the normalization is exercised with
MaxOwnerLen == 3

(***************************************************************************)
(* Program constants.                                                      *)
(***************************************************************************)
MaxNumberOfMessages == 10

(***************************************************************************)
(* Strings and JSON.                                                       *)
(***************************************************************************)
UpperToLower == ("J" :> "j") @@ ("D" :> "d")

\* str.lower() on one character
LowerChar(c) == IF c \in DOMAIN UpperToLower THEN UpperToLower[c] ELSE c

\* str.replace(' ', '-') on one character
ReplaceChar(c) == IF c = " " THEN "-" ELSE c

\* the normalization, had it only lower-cased the owner
SlugLowerOnly(owner) == [i \in 1..Len(owner) |-> LowerChar(owner[i])]

\* request['owner'].replace(' ', '-').lower()
Slug(owner) == [i \in 1..Len(owner) |-> LowerChar(ReplaceChar(owner[i]))]

\* f'widgets/{owner}/{widget_id}'
S3Key(owner, widget_id) ==
    <<"w", "i", "d", "g", "e", "t", "s", "/">> \o owner \o <<"/">> \o widget_id

\* json.dumps / json.loads: a document is the value wrapped as text
JsonDumps(v) == [json |-> v]

JsonLoads(body) == body.json

None == [none |-> TRUE]

IsNone(x) == "none" \in DOMAIN x

(***************************************************************************)
(* The requests a producer may submit.                                     *)
(***************************************************************************)
WidgetIds == { <<"1">> }

Owners == { <<"J", " ", "D">>, <<"j", "-", "d">> }

Labels == { <<"L1">>, <<"L2">> }

AttributeLists ==
    { << [name |-> "color", value |-> <<"red">>] >>,
      << [name |-> "owner", value |-> <<"x">>] >> }

PayloadRequests ==
    { [type |-> t, widgetId |-> w, owner |-> o, label |-> l,
       description |-> <<"D">>, otherAttributes |-> a] :
         t \in {"create", "update"}, w \in WidgetIds, o \in Owners,
         l \in Labels, a \in AttributeLists }

KeyRequests ==
    { [type |-> t, widgetId |-> w, owner |-> o] :
         t \in {"delete", "list"}, w \in WidgetIds, o \in Owners }

\* the requests the consumer is exercised with when called directly
Requests == PayloadRequests \cup KeyRequests

\* the requests the producer of the whole system submits: one of each type
\* for one widget
ProducerRequests ==
    { r \in Requests :
        /\ r.owner = <<"J", " ", "D">>
        /\ "label" \in DOMAIN r =>
              /\ r.label = <<"L1">>
              /\ r.otherAttributes[1].name = "color" }

\* the owner of test_process_create_request
JohnDoe == <<"J", "o", "h", "n", " ", "D", "o", "e">>

\* the characters owner strings are built from: upper case, lower case, the
\* space and the hyphen
OwnerAlphabet == {"J", "D", "j", "d", " ", "-"}

\* the owner strings the normalization is exercised with
OwnerStrings ==
    UNION { [1..n -> OwnerAlphabet] : n \in 0..MaxOwnerLen } \cup { JohnDoe }

\* the outcome of each backend API call of one loop step: TRUE = it returns,
\* FALSE = it raises
Outcomes ==
    [list : BOOLEAN, get : BOOLEAN, receive : BOOLEAN, head : BOOLEAN,
     put : BOOLEAN, del : BOOLEAN, getItem : BOOLEAN, putItem : BOOLEAN,
     delItem : BOOLEAN, delMsg : BOOLEAN]

AllOk == [list |-> TRUE, get |-> TRUE, receive |-> TRUE, head |-> TRUE,
          put |-> TRUE, del |-> TRUE, getItem |-> TRUE, putItem |-> TRUE,
          delItem |-> TRUE, delMsg |-> TRUE]

(***************************************************************************)
(* The backing services.                                                   *)
(***************************************************************************)
\* s3.put_object
PutObject(b, key, body) ==
    [k \in DOMAIN b \cup {key} |-> IF k = key THEN body ELSE b[k]]

\* s3.delete_object
DeleteObject(b, key) == [k \in DOMAIN b \ {key} |-> b[k]]

\* table.put_item: the item is stored under its own key attributes
PutItem(t, item) ==
    LET key == <<item["widget_id"], item["owner"]>>
    IN  [k \in DOMAIN t \cup {key} |-> IF k = key THEN item ELSE t[k]]

\* table.delete_item
DeleteItem(t, key) == [k \in DOMAIN t \ {key} |-> t[k]]

\* the ReceiptHandle SQS hands out with message m
ReceiptHandle(m) == <<"rh", ToString(m)>>

\* a message of a receive_message response
Message(q, m) ==
    [MessageId |-> m, Body |-> q[m], ReceiptHandle |-> ReceiptHandle(m)]

\* sqs.delete_message: the message with that handle leaves the queue
DeleteMessage(q, receipt_handle) ==
    [m \in {x \in DOMAIN q : ReceiptHandle(x) # receipt_handle} |-> q[m]]

RECURSIVE Orderings(_)
Orderings(S) ==
    IF S = {} THEN { << >> }
    ELSE UNION { { <<x>> \o s : s \in Orderings(S \ {x}) } : x \in S }

\* sqs.receive_message(MaxNumberOfMessages=10, WaitTimeSeconds=1): the possible
\* 'Messages' of the response; << >> stands for a response without 'Messages'
ReceiveResponses(q, inv) ==
    LET visible == DOMAIN q \ inv
        picks == { T \in SUBSET visible :
                     T # {} /\ Cardinality(T) <= MaxNumberOfMessages }
    IN  IF visible = {} THEN { << >> }
        ELSE { [i \in 1..Len(o) |-> Message(q, o[i])] :
                 o \in UNION { Orderings(T) : T \in picks } }

\* the key under which the producer uploads its n-th request
RequestKey(n) == <<"r", "e", "q", "/", ToString(n)>>

Empty == [k \in {} |-> None]

(***************************************************************************)
(* A world is the state one loop step works on: the backing services, the  *)
(* SQSClient cache, the trace of backend calls, whether an exception has   *)
(* propagated (raised), the value returned (ret) and what                  *)
(* process_widget_request logged.                                          *)
(***************************************************************************)
World(b, t, q, inv, cache) ==
    [bucket |-> b, table |-> t, queue |-> q, invisible |-> inv,
     message_cache |-> cache, calls |-> << >>, raised |-> FALSE, ret |-> None,
     s3_success |-> FALSE, dynamo_success |-> FALSE, report |-> "none"]

\* one backend call appended to the trace of a world w
Call(w, op, arg, ok) ==
    [w EXCEPT !.calls = Append(@, [op |-> op, arg |-> arg, ok |-> ok])]

\* an exception leaves the method
Raise(w) == [w EXCEPT !.raised = TRUE]

(***************************************************************************)
(* SQSClient                                                               *)
(***************************************************************************)
Item(message) ==
    [request |-> JsonLoads(message.Body),
     receipt_handle |-> message.ReceiptHandle]

\* get_next_widget_request, had it cached the whole response
\* (extend(messages) for extend(messages[1:]))
SQSGetNextCachingAll(w, messages, ok) ==
    IF w.message_cache # << >>
    THEN [w EXCEPT !.message_cache = Tail(@),
                   !.ret = Item(Head(w.message_cache))]
    ELSE LET w1 == Call(w, "receive_message", << >>, ok.receive)
         IN  IF ~ok.receive THEN Raise(w1)
             ELSE IF messages = << >> THEN [w1 EXCEPT !.ret = None]
             ELSE [w1 EXCEPT
                     !.invisible =
                        @ \cup { messages[i].MessageId : i \in 1..Len(messages) },
                     !.message_cache = @ \o messages,
                     !.ret = Item(messages[1])]

\* SQSClient.get_next_widget_request; `messages` is what SQS answers should
\* receive_message be called
SQSGetNextWidgetRequest(w, messages, ok) ==
    IF w.message_cache # << >>
    THEN [w EXCEPT !.message_cache = Tail(@),
                   !.ret = Item(Head(w.message_cache))]
    ELSE LET w1 == Call(w, "receive_message", << >>, ok.receive)
         IN  IF ~ok.receive THEN Raise(w1)
             ELSE IF messages = << >> THEN [w1 EXCEPT !.ret = None]
             ELSE [w1 EXCEPT
                     !.invisible =
                        @ \cup { messages[i].MessageId : i \in 1..Len(messages) },
                     !.message_cache = @ \o Tail(messages),
                     !.ret = Item(messages[1])]

\* SQSClient.delete_message
SQSDeleteMessage(w, receipt_handle, ok) ==
    LET w1 == Call(w, "delete_message", receipt_handle, ok.delMsg)
    IN  IF ~ok.delMsg THEN Raise(w1)
        ELSE [w1 EXCEPT
                !.queue = DeleteMessage(@, receipt_handle),
                !.invisible =
                   { m \in @ : ReceiptHandle(m) # receipt_handle }]

(***************************************************************************)
(* S3Client                                                                *)
(***************************************************************************)
\* get_next_widget_request, had it left the key in the bucket
S3GetNextKeepingKey(w, key, ok) ==
    LET w1 == Call(w, "list_objects_v2", << >>, ok.list)
        w2 == Call(w1, "get_object", key, ok.get)
    IN  IF ~ok.list THEN Raise(w1)
        ELSE IF DOMAIN w.bucket = {} THEN [w1 EXCEPT !.ret = None]
        ELSE IF ~ok.get THEN Raise(w2)
        ELSE [w2 EXCEPT !.ret = [request |-> JsonLoads(w.bucket[key])]]

\* S3Client.get_next_widget_request; `key` is response['Contents'][0]['Key'],
\* the listing order being the store's
S3GetNextWidgetRequest(w, key, ok) ==
    LET w1 == Call(w, "list_objects_v2", << >>, ok.list)
        w2 == Call(w1, "get_object", key, ok.get)
        w3 == Call(w2, "delete_object", key, ok.del)
    IN  IF ~ok.list THEN Raise(w1)
        ELSE IF DOMAIN w.bucket = {} THEN [w1 EXCEPT !.ret = None]
        ELSE IF ~ok.get THEN Raise(w2)
        ELSE IF ~ok.del THEN Raise(w3)
        ELSE [w3 EXCEPT !.bucket = DeleteObject(@, key),
                        !.ret = [request |-> JsonLoads(w.bucket[key])]]

\* save_widget, had it caught the exception of put_object
S3SaveWidgetSwallowing(w, widget, owner, widget_id, ok) ==
    LET s3_key == S3Key(owner, widget_id)
        w1 == Call(w, "put_object", s3_key, ok.put)
    IN  IF ~ok.put THEN w1
        ELSE [w1 EXCEPT !.bucket = PutObject(@, s3_key, JsonDumps(widget))]

\* S3Client.save_widget
S3SaveWidget(w, widget, owner, widget_id, ok) ==
    LET s3_key == S3Key(owner, widget_id)
        w1 == Call(w, "put_object", s3_key, ok.put)
    IN  IF ~ok.put THEN Raise(w1)
        ELSE [w1 EXCEPT !.bucket = PutObject(@, s3_key, JsonDumps(widget))]

\* S3Client.delete_widget
S3DeleteWidget(w, owner, widget_id, ok) ==
    LET s3_key == S3Key(owner, widget_id)
        w1 == Call(w, "delete_object", s3_key, ok.del)
    IN  IF ~ok.del THEN [w1 EXCEPT !.ret = FALSE]
        ELSE [w1 EXCEPT !.bucket = DeleteObject(@, s3_key), !.ret = TRUE]

\* update_widget, had it written whatever the probe found
S3UpdateWidgetNoProbe(w, widget, owner, widget_id, ok) ==
    LET s3_key == S3Key(owner, widget_id)
        found == ok.head /\ s3_key \in DOMAIN w.bucket
        w1 == Call(w, "head_object", s3_key, found)
        w2 == Call(w1, "put_object", s3_key, ok.put)
    IN  IF ~ok.put THEN [w2 EXCEPT !.ret = FALSE]
        ELSE [w2 EXCEPT !.bucket = PutObject(@, s3_key, JsonDumps(widget)),
                        !.ret = TRUE]

\* S3Client.update_widget: head_object raises when the key is absent
S3UpdateWidget(w, widget, owner, widget_id, ok) ==
    LET s3_key == S3Key(owner, widget_id)
        found == ok.head /\ s3_key \in DOMAIN w.bucket
        w1 == Call(w, "head_object", s3_key, found)
        w2 == Call(w1, "put_object", s3_key, ok.put)
    IN  IF ~found THEN [w1 EXCEPT !.ret = FALSE]
        ELSE IF ~ok.put THEN [w2 EXCEPT !.ret = FALSE]
        ELSE [w2 EXCEPT !.bucket = PutObject(@, s3_key, JsonDumps(widget)),
                        !.ret = TRUE]

(***************************************************************************)
(* DynamoDBClient                                                          *)
(***************************************************************************)
\* dynamo_item[name] = value
SetField(item, name, value) ==
    [f \in DOMAIN item \cup {name} |-> IF f = name THEN value ELSE item[f]]

\* for attribute in ...: dynamo_item[attribute['name']] = attribute['value']
RECURSIVE Flatten(_, _)
Flatten(item, attributes) ==
    IF attributes = << >> THEN item
    ELSE Flatten(SetField(item, Head(attributes).name, Head(attributes).value),
                 Tail(attributes))

\* widget.get('otherAttributes', [])
OtherAttributes(widget) ==
    IF "otherAttributes" \in DOMAIN widget THEN widget.otherAttributes
    ELSE << >>

\* the dynamo_item, had it taken the normalized owner
DynamoItemSlugOwner(widget) ==
    Flatten([widget_id |-> widget.widgetId, owner |-> Slug(widget.owner),
             label |-> widget.label, description |-> widget.description],
            OtherAttributes(widget))

\* the dynamo_item of DynamoDBClient.save_widget
DynamoItem(widget) ==
    Flatten([widget_id |-> widget.widgetId, owner |-> widget.owner,
             label |-> widget.label, description |-> widget.description],
            OtherAttributes(widget))

\* widget['label'] and widget['description'] raise KeyError when absent
HasPayload(widget) == {"label", "description"} \subseteq DOMAIN widget

\* DynamoDBClient.save_widget
DDBSaveWidget(w, widget, ok) ==
    IF ~HasPayload(widget) THEN Raise(w)
    ELSE LET dynamo_item == DynamoItem(widget)
             w1 == Call(w, "put_item",
                        <<dynamo_item["widget_id"], dynamo_item["owner"]>>,
                        ok.putItem)
         IN  IF ~ok.putItem THEN Raise(w1)
             ELSE [w1 EXCEPT !.table = PutItem(@, dynamo_item)]

\* DynamoDBClient.delete_widget
DDBDeleteWidget(w, widget_id, owner, ok) ==
    LET w1 == Call(w, "delete_item", <<widget_id, owner>>, ok.delItem)
    IN  IF ~ok.delItem THEN [w1 EXCEPT !.ret = FALSE]
        ELSE [w1 EXCEPT !.table = DeleteItem(@, <<widget_id, owner>>),
                        !.ret = TRUE]

\* update_widget, had it replaced a record it finds by deleting it, the save
\* left to the other branch
DDBUpdateWidgetReplacing(w, widget, ok) ==
    LET key == <<widget.widgetId, widget.owner>>
        w1 == Call(w, "get_item", key, ok.getItem)
        w2 == DDBSaveWidget(w1, widget, ok)
    IN  IF ~ok.getItem THEN [w1 EXCEPT !.ret = FALSE]
        ELSE IF key \in DOMAIN w.table
        THEN [w1 EXCEPT !.table = DeleteItem(@, key), !.ret = TRUE]
        ELSE IF w2.raised THEN [w2 EXCEPT !.raised = FALSE, !.ret = FALSE]
        ELSE [w2 EXCEPT !.ret = TRUE]

\* DynamoDBClient.update_widget: get_item returns a response without 'Item'
\* when the key is absent; it does not raise
DDBUpdateWidget(w, widget, ok) ==
    LET w1 == Call(w, "get_item", <<widget.widgetId, widget.owner>>, ok.getItem)
        w2 == DDBSaveWidget(w1, widget, ok)
    IN  IF ~ok.getItem THEN [w1 EXCEPT !.ret = FALSE]
        ELSE IF w2.raised THEN [w2 EXCEPT !.raised = FALSE, !.ret = FALSE]
        ELSE [w2 EXCEPT !.ret = TRUE]

(***************************************************************************)
(* Consumer                                                                *)
(***************************************************************************)
\* the create branch, had it removed the blob again when the record store
\* call raises
ProcessCreateRollback(w, r, owner, widget_id, ok) ==
    LET w1 == S3SaveWidget(w, r, owner, widget_id, ok)
        w2 == DDBSaveWidget(w1, r, ok)
    IN  IF w1.raised THEN w1
        ELSE IF w2.raised
        THEN Raise(S3DeleteWidget([w2 EXCEPT !.raised = FALSE],
                                  owner, widget_id, AllOk))
        ELSE [w2 EXCEPT !.report = "success"]

\* the create branch of process_widget_request
ProcessCreate(w, r, owner, widget_id, ok) ==
    LET w1 == S3SaveWidget(w, r, owner, widget_id, ok)
        w2 == DDBSaveWidget(w1, r, ok)
    IN  IF w1.raised THEN w1
        ELSE IF w2.raised THEN w2
        ELSE [w2 EXCEPT !.report = "success"]

\* the report, had the condition been `s3_success or dynamo_success`
ReportEither(s3_success, dynamo_success) ==
    IF s3_success \/ dynamo_success THEN "success" ELSE "failure"

\* if s3_success and dynamo_success: logging.info(...) else: logging.error(...)
Report(s3_success, dynamo_success) ==
    IF s3_success /\ dynamo_success THEN "success" ELSE "failure"

\* the delete branch, had it skipped the record store once the blob store
\* reported false
ProcessDeleteShortCircuit(w, owner, widget_id, ok) ==
    LET w1 == S3DeleteWidget(w, owner, widget_id, ok)
        w2 == DDBDeleteWidget(w1, widget_id, owner, ok)
    IN  IF ~w1.ret
        THEN [w1 EXCEPT !.s3_success = FALSE, !.dynamo_success = FALSE,
                        !.report = "failure"]
        ELSE [w2 EXCEPT !.s3_success = w1.ret, !.dynamo_success = w2.ret,
                        !.report = Report(w1.ret, w2.ret)]

\* the delete branch of process_widget_request
ProcessDelete(w, owner, widget_id, ok) ==
    LET w1 == S3DeleteWidget(w, owner, widget_id, ok)
        w2 == DDBDeleteWidget(w1, widget_id, owner, ok)
    IN  [w2 EXCEPT !.s3_success = w1.ret, !.dynamo_success = w2.ret,
                   !.report = Report(w1.ret, w2.ret)]

\* the update branch of process_widget_request
ProcessUpdate(w, r, owner, widget_id, ok) ==
    LET w1 == S3UpdateWidget(w, r, owner, widget_id, ok)
        w2 == DDBUpdateWidget(w1, r, ok)
    IN  [w2 EXCEPT !.s3_success = w1.ret, !.dynamo_success = w2.ret,
                   !.report = Report(w1.ret, w2.ret)]

\* the if / elif chain, had its last branch been an else taking every other
\* type for a delete
DispatchDefaultDelete(w, r, owner, widget_id, ok) ==
    IF r.type = "create" THEN ProcessCreate(w, r, owner, widget_id, ok)
    ELSE IF r.type = "update" THEN ProcessUpdate(w, r, owner, widget_id, ok)
    ELSE ProcessDelete(w, owner, widget_id, ok)

\* the if / elif chain on request_type
Dispatch(w, r, owner, widget_id, ok) ==
    IF r.type = "create" THEN ProcessCreate(w, r, owner, widget_id, ok)
    ELSE IF r.type = "delete" THEN ProcessDelete(w, owner, widget_id, ok)
    ELSE IF r.type = "update" THEN ProcessUpdate(w, r, owner, widget_id, ok)
    ELSE w

\* Acknowledge, had it deleted the messages of the look-ahead buffer along
\* with the one processed
AcknowledgeBuffered(w, request_data, isSQS, ok) ==
    IF isSQS /\ "receipt_handle" \in DOMAIN request_data
    THEN LET w1 == SQSDeleteMessage(w, request_data.receipt_handle, ok)
             buffered == { w.message_cache[k].MessageId :
                             k \in 1..Len(w.message_cache) }
         IN  IF w1.raised THEN w1
             ELSE [w1 EXCEPT
                     !.queue = [m \in DOMAIN @ \ buffered |-> @[m]],
                     !.invisible = @ \ buffered]
    ELSE w

\* Acknowledge, had it been placed in the success branches only
AcknowledgeOnSuccess(w, request_data, isSQS, ok) ==
    IF isSQS /\ "receipt_handle" \in DOMAIN request_data /\ w.report # "failure"
    THEN SQSDeleteMessage(w, request_data.receipt_handle, ok)
    ELSE w

\* the acknowledgement at the end of process_widget_request
Acknowledge(w, request_data, isSQS, ok) ==
    IF isSQS /\ "receipt_handle" \in DOMAIN request_data
    THEN SQSDeleteMessage(w, request_data.receipt_handle, ok)
    ELSE w

\* process_widget_request, had it acknowledged before dispatching
ProcessWidgetRequestAckFirst(w, request_data, isSQS, ok) ==
    LET r == request_data.request
        w1 == Acknowledge(w, request_data, isSQS, ok)
    IN  IF w1.raised THEN w1
        ELSE Dispatch(w1, r, Slug(r.owner), r.widgetId, ok)

\* process_widget_request, had it ended with the dispatch
ProcessWidgetRequestNoAck(w, request_data, isSQS, ok) ==
    LET r == request_data.request
    IN  Dispatch(w, r, Slug(r.owner), r.widgetId, ok)

\* Consumer.process_widget_request
ProcessWidgetRequest(w, request_data, isSQS, ok) ==
    LET r == request_data.request
        owner == Slug(r.owner)
        widget_id == r.widgetId
        w1 == Dispatch(w, r, owner, widget_id, ok)
    IN  IF w1.raised THEN w1 ELSE Acknowledge(w1, request_data, isSQS, ok)

(***************************************************************************)
(* The state machine.                                                      *)
(***************************************************************************)
NoResult == [none |-> TRUE]

\* the outcomes of the backend calls SQSClient.get_next_widget_request makes
SQSFetchOutcomes == { [AllOk EXCEPT !.receive = a] : a \in BOOLEAN }

\* the outcomes of the backend calls S3Client.get_next_widget_request makes
S3FetchOutcomes ==
    { [AllOk EXCEPT !.list = a, !.get = b, !.del = c] :
        a \in BOOLEAN, b \in BOOLEAN, c \in BOOLEAN }

\* the outcomes of the backend calls process_widget_request makes for a
\* request of the given type
ProcessOutcomes(type) ==
    IF type = "create"
    THEN { [AllOk EXCEPT !.put = a, !.putItem = b, !.delMsg = c] :
             a \in BOOLEAN, b \in BOOLEAN, c \in BOOLEAN }
    ELSE IF type = "delete"
    THEN { [AllOk EXCEPT !.del = a, !.delItem = b, !.delMsg = c] :
             a \in BOOLEAN, b \in BOOLEAN, c \in BOOLEAN }
    ELSE IF type = "update"
    THEN { [AllOk EXCEPT !.head = a, !.put = b, !.getItem = c,
                         !.putItem = d, !.delMsg = e] :
             a \in BOOLEAN, b \in BOOLEAN, c \in BOOLEAN, d \in BOOLEAN,
             e \in BOOLEAN }
    ELSE { [AllOk EXCEPT !.delMsg = a] : a \in BOOLEAN }

\* main(): the clients are built, nothing has been stored or sent
Init ==
    /\ sourceKind \in {"sqs", "s3"}
    /\ bucket = Empty
    /\ table = Empty
    /\ queue = Empty
    /\ invisible = {}
    /\ nsent = 0
    /\ message_cache = << >>
    /\ pc = "fetch"
    /\ request = None
    /\ calls = << >>
    /\ result = NoResult
    /\ batch = << >>
    /\ returned = << >>

\* the position of run() after a step that left the world w
NextPc(w, after) == IF w.raised THEN "crashed" ELSE after

\* the producer sends a request to the queue
SendMessage(r) ==
    /\ sourceKind = "sqs"
    /\ nsent < MaxMsgs
    /\ nsent' = nsent + 1
    /\ queue' = [m \in DOMAIN queue \cup {nsent + 1} |->
                   IF m = nsent + 1 THEN JsonDumps(r) ELSE queue[m]]
    /\ UNCHANGED <<sourceKind, bucket, table, invisible, message_cache, pc,
                   request, calls, result, batch, returned>>

\* the producer uploads a request to the bucket
UploadRequest(r) ==
    /\ sourceKind = "s3"
    /\ nsent < MaxMsgs
    /\ nsent' = nsent + 1
    /\ bucket' = PutObject(bucket, RequestKey(nsent + 1), JsonDumps(r))
    /\ UNCHANGED <<sourceKind, table, queue, invisible, message_cache, pc,
                   request, calls, result, batch, returned>>

\* SQS makes a received, undeleted message visible again
VisibilityTimeout(m) ==
    /\ m \in invisible
    /\ invisible' = invisible \ {m}
    /\ UNCHANGED <<sourceKind, bucket, table, queue, nsent, message_cache, pc,
                   request, calls, result, batch, returned>>

\* run(): request = self.source_client.get_next_widget_request(), SQSClient
FetchSQS ==
    /\ pc = "fetch"
    /\ sourceKind = "sqs"
    /\ \E messages \in ReceiveResponses(queue, invisible), ok \in SQSFetchOutcomes :
         LET w == SQSGetNextWidgetRequest(
                     World(bucket, table, queue, invisible, message_cache),
                     messages, ok)
             received == w.calls # << >> /\ ~w.raised /\ messages # << >>
         IN  /\ invisible' = w.invisible
             /\ message_cache' = w.message_cache
             /\ calls' = w.calls
             /\ request' = IF w.raised THEN request ELSE w.ret
             /\ pc' = NextPc(w, IF IsNone(w.ret) THEN "fetch" ELSE "process")
             /\ batch' = IF received THEN messages ELSE batch
             /\ returned' =
                   IF w.raised \/ IsNone(w.ret) THEN returned
                   ELSE IF received THEN << w.ret >>
                   ELSE Append(returned, w.ret)
    /\ result' = NoResult
    /\ UNCHANGED <<sourceKind, bucket, table, queue, nsent>>

\* run(): request = self.source_client.get_next_widget_request(), S3Client
FetchS3 ==
    /\ pc = "fetch"
    /\ sourceKind = "s3"
    /\ \E key \in (IF DOMAIN bucket = {} THEN { << >> } ELSE DOMAIN bucket),
          ok \in S3FetchOutcomes :
         LET w == S3GetNextWidgetRequest(
                     World(bucket, table, queue, invisible, message_cache),
                     key, ok)
         IN  /\ bucket' = w.bucket
             /\ calls' = w.calls
             /\ request' = IF w.raised THEN request ELSE w.ret
             /\ pc' = NextPc(w, IF IsNone(w.ret) THEN "fetch" ELSE "process")
    /\ result' = NoResult
    /\ UNCHANGED <<sourceKind, table, queue, invisible, nsent, message_cache,
                   batch, returned>>

\* run(): self.process_widget_request(request)
Process ==
    /\ pc = "process"
    /\ \E ok \in ProcessOutcomes(request.request.type) :
         LET w == ProcessWidgetRequest(
                     World(bucket, table, queue, invisible, message_cache),
                     request, sourceKind = "sqs", ok)
         IN  /\ bucket' = w.bucket
             /\ table' = w.table
             /\ queue' = w.queue
             /\ invisible' = w.invisible
             /\ calls' = w.calls
             /\ pc' = NextPc(w, "fetch")
             /\ result' = [item |-> request, raised |-> w.raised,
                            s3_success |-> w.s3_success,
                            dynamo_success |-> w.dynamo_success,
                            report |-> w.report]
    /\ UNCHANGED <<sourceKind, nsent, message_cache, request, batch, returned>>

\* the process is started again after an uncaught exception ended it:
\* main() builds new clients
Restart ==
    /\ pc = "crashed"
    /\ pc' = "fetch"
    /\ message_cache' = << >>
    /\ request' = None
    /\ batch' = << >>
    /\ returned' = << >>
    /\ UNCHANGED <<sourceKind, bucket, table, queue, invisible, nsent, calls,
                   result>>

\* the process is terminated from outside between two calls of run() and
\* started again
KillAndRestart ==
    /\ pc \in {"fetch", "process"}
    /\ pc' = "fetch"
    /\ message_cache' = << >>
    /\ request' = None
    /\ batch' = << >>
    /\ returned' = << >>
    /\ UNCHANGED <<sourceKind, bucket, table, queue, invisible, nsent, calls,
                   result>>

\* TestConsumer: the source is a mock and process_widget_request is handed
\* a request directly
InitDirect ==
    /\ sourceKind = "mock"
    /\ bucket = Empty
    /\ table = Empty
    /\ queue = Empty
    /\ invisible = {}
    /\ nsent = 0
    /\ message_cache = << >>
    /\ pc = "fetch"
    /\ request = None
    /\ calls = << >>
    /\ result = NoResult
    /\ batch = << >>
    /\ returned = << >>

\* the request dict a test builds: {'request': r, 'receipt_handle': 'test-receipt'}
Submit(r) ==
    /\ sourceKind = "mock"
    /\ pc = "fetch"
    /\ request' = [request |-> r, receipt_handle |-> <<"test-receipt">>]
    /\ pc' = "process"
    /\ calls' = << >>
    /\ result' = NoResult
    /\ UNCHANGED <<sourceKind, bucket, table, queue, invisible, nsent,
                   message_cache, batch, returned>>

Next ==
    \/ \E r \in ProducerRequests : SendMessage(r)
    \/ \E r \in ProducerRequests : UploadRequest(r)
    \/ \E m \in DOMAIN queue : VisibilityTimeout(m)
    \/ FetchSQS
    \/ FetchS3
    \/ Process
    \/ Restart
    \/ KillAndRestart

Spec == Init /\ [][Next]_vars

NextDirect ==
    \/ \E r \in Requests : Submit(r)
    \/ Process
    \/ Restart

SpecDirect == InitDirect /\ [][NextDirect]_vars

\* main() started with --sqs-queue
InitQueue ==
    /\ Init
    /\ sourceKind = "sqs"

\* get_next_widget_request returns to run(): receive_message did not raise
FetchReturns ==
    /\ FetchSQS
    /\ pc' # "crashed"

\* process_widget_request returns to run(): no exception left it
ProcessReturns ==
    /\ Process
    /\ pc' # "crashed"

\* the worker on the queue while no exception ends run(): the `while True`
\* loop goes on calling get_next_widget_request and process_widget_request
NextLive ==
    \/ \E r \in ProducerRequests : SendMessage(r)
    \/ \E m \in DOMAIN queue : VisibilityTimeout(m)
    \/ FetchReturns
    \/ ProcessReturns

SpecLive ==
    /\ InitQueue
    /\ [][NextLive]_vars
    /\ WF_vars(FetchReturns)
    /\ WF_vars(ProcessReturns)

\* the requests whose store calls raise into run(): the creates
CreateRequests == { r \in ProducerRequests : r.type = "create" }

\* the worker on the queue with its failures: exceptions end run(), the
\* process is killed, and it is started again
NextRecover ==
    \/ \E r \in CreateRequests : SendMessage(r)
    \/ \E m \in DOMAIN queue : VisibilityTimeout(m)
    \/ FetchSQS
    \/ Process
    \/ Restart
    \/ KillAndRestart

\* a stopped worker is started again, SQS ends the visibility timeout of a
\* message that was not deleted, and neither the failures of the backend calls
\* nor the kills go on for ever: the loop gets to complete a fetch and a
\* process step again and again
SpecRecover ==
    /\ InitQueue
    /\ [][NextRecover]_vars
    /\ WF_vars(Restart)
    /\ \A m \in 1..MaxMsgs : WF_vars(VisibilityTimeout(m))
    /\ SF_vars(FetchReturns)
    /\ SF_vars(ProcessReturns)

\* test_process_create_request with the owner drawn from OwnerStrings: the
\* request dict is built and process_widget_request is about to be called
InitSlug ==
    /\ sourceKind = "mock"
    /\ bucket = Empty
    /\ table = Empty
    /\ queue = Empty
    /\ invisible = {}
    /\ nsent = 0
    /\ message_cache = << >>
    /\ pc = "process"
    /\ request \in
          { [request |-> [type |-> "create", widgetId |-> <<"1">>, owner |-> o,
                          label |-> <<"L1">>, description |-> <<"D">>,
                          otherAttributes |->
                             << [name |-> "color", value |-> <<"red">>] >>],
             receipt_handle |-> <<"test-receipt">>] : o \in OwnerStrings }
    /\ calls = << >>
    /\ result = NoResult
    /\ batch = << >>
    /\ returned = << >>

NextSlug ==
    \/ Process
    \/ Restart

SpecSlug == InitSlug /\ [][NextSlug]_vars

(***************************************************************************)
(* Reading the history variables.                                          *)
(***************************************************************************)
\* the last step of run() was process_widget_request
Processed == ~IsNone(result)

\* the positions of the trace at which backend operation op was called
CallsOf(op) == { i \in 1..Len(calls) : calls[i].op = op }

\* the last step processed an item with an ack token from the queue source
ProcessedQueueItem ==
    /\ Processed
    /\ sourceKind = "sqs"
    /\ "receipt_handle" \in DOMAIN result.item

\* the delete_message calls of the last step made with the item's token
AcksOfItem ==
    { i \in CallsOf("delete_message") : calls[i].arg = result.item.receipt_handle }

\* an exception left the dispatch of the last step, before the acknowledgement
DispatchRaised ==
    /\ result.raised
    /\ calls # << >> => calls[Len(calls)].op # "delete_message"

\* message m has left the queue
Gone(receipt_handle) ==
    \A m \in DOMAIN queue : ReceiptHandle(m) # receipt_handle

(***************************************************************************)
(* C1 as stated: every item with an ack token processed with the queue     *)
(* source has delete_message called exactly once with its token, whether   *)
(* the store calls of the dispatch succeeded or failed.                    *)
(***************************************************************************)
C1_AckExactlyOnceAlways ==
    ProcessedQueueItem => Cardinality(AcksOfItem) = 1

(***************************************************************************)
(* C1 amended: when the dispatch returns, whatever it reported,            *)
(* delete_message is called exactly once, with the item's token, as the    *)
(* last call of the step; when a store call of a create raises, the        *)
(* exception leaves process_widget_request and delete_message is not       *)
(* called.                                                                 *)
(***************************************************************************)
C1_AckOnceWhenDispatchReturns ==
    ProcessedQueueItem =>
        IF DispatchRaised
        THEN /\ result.item.request.type = "create"
             /\ CallsOf("delete_message") = {}
        ELSE /\ CallsOf("delete_message") = { Len(calls) }
             /\ AcksOfItem = { Len(calls) }

\* a delete or update that reported a failure was acknowledged once
C1_Witness ==
    /\ ProcessedQueueItem
    /\ result.report = "failure"
    /\ AcksOfItem = { Len(calls) }
    /\ \E i \in 1..Len(calls) : ~calls[i].ok /\ calls[i].op # "delete_message"

(***************************************************************************)
(* C2: delete_message is called only for the item being processed, after   *)
(* the store calls of its dispatch were attempted; the item being          *)
(* processed is the one get_next_widget_request returned last, and its     *)
(* message and every message in the look-ahead buffer are still in the     *)
(* queue.                                                                  *)
(***************************************************************************)
\* the store calls every dispatch of the given type attempts
FirstStoreCalls(type) ==
    IF type = "create" THEN {"put_object", "put_item"}
    ELSE IF type = "delete" THEN {"delete_object", "delete_item"}
    ELSE IF type = "update" THEN {"head_object", "get_item"}
    ELSE {}

C2_AckOnlyAfterDispatch ==
    /\ \A i \in CallsOf("delete_message") :
          /\ ProcessedQueueItem
          /\ calls[i].arg = result.item.receipt_handle
          /\ i = Len(calls)
          /\ \A op \in FirstStoreCalls(result.item.request.type) :
                \E j \in CallsOf(op) : j < i
    /\ \A k \in 1..Len(message_cache) :
          ~Gone(message_cache[k].ReceiptHandle)
    /\ (pc = "process" /\ sourceKind = "sqs") =>
          /\ returned # << >>
          /\ returned[Len(returned)] = request
          /\ ~Gone(request.receipt_handle)

\* one message was acknowledged and deleted while another one, received in the
\* same batch, waits in the buffer
C2_Witness ==
    /\ ProcessedQueueItem
    /\ AcksOfItem # {}
    /\ Gone(result.item.receipt_handle)
    /\ message_cache # << >>

(***************************************************************************)
(* Reading a step of process_widget_request: the request being processed,  *)
(* its blob key and its record key.                                        *)
(***************************************************************************)
Req == request.request

BlobKey(r) == S3Key(Slug(r.owner), r.widgetId)

RecordKey(r) == <<r.widgetId, r.owner>>

\* a Create for the widget of r was carried out: its blob and its record exist
CreatedBefore(r) ==
    /\ BlobKey(r) \in DOMAIN bucket
    /\ JsonLoads(bucket[BlobKey(r)]).type = "create"
    /\ JsonLoads(bucket[BlobKey(r)]).owner = r.owner
    /\ JsonLoads(bucket[BlobKey(r)]).widgetId = r.widgetId
    /\ RecordKey(r) \in DOMAIN table

(***************************************************************************)
(* C3 as stated: after a Create for (id, owner), a Delete for the same     *)
(* (id, owner) whose two DeleteWidget calls report true leaves neither the *)
(* blob nor the record of that widget, for every owner string.             *)
(***************************************************************************)
C3_DeleteAfterCreateRemovesBoth ==
    [][ ( /\ Process
          /\ Req.type = "delete"
          /\ CreatedBefore(Req)
          /\ result'.s3_success /\ result'.dynamo_success )
        => ( /\ BlobKey(Req) \notin DOMAIN bucket'
             /\ RecordKey(Req) \notin DOMAIN table' ) ]_vars

(***************************************************************************)
(* C7 as stated: an Update for a widget present in neither store leaves    *)
(* both stores unchanged, the record store reporting false.                *)
(***************************************************************************)
C7_UpdateNeverCreates ==
    [][ ( /\ Process
          /\ Req.type = "update"
          /\ BlobKey(Req) \notin DOMAIN bucket
          /\ RecordKey(Req) \notin DOMAIN table )
        => ( /\ bucket' = bucket
             /\ table' = table
             /\ ~result'.dynamo_success ) ]_vars

Succeeded(op) ==
    /\ CallsOf(op) # {}
    /\ \A i \in CallsOf(op) : calls[i].ok

C6_SuccessNeedsBothStores ==
    (Processed /\ result.item.request.type \in {"delete", "update"}) =>
        /\ result.report \in {"success", "failure"}
        /\ result.report = "success" <=>
              (result.s3_success /\ result.dynamo_success)
        /\ result.item.request.type = "delete" =>
              /\ result.s3_success <=> Succeeded("delete_object")
              /\ result.dynamo_success <=> Succeeded("delete_item")
        /\ result.item.request.type = "update" =>
              /\ result.s3_success <=>
                    (Succeeded("head_object") /\ Succeeded("put_object"))
              /\ result.dynamo_success <=>
                    (Succeeded("get_item") /\ Succeeded("put_item"))
        /\ (ProcessedQueueItem /\ result.report = "failure") =>
              /\ AcksOfItem = { Len(calls) }
              /\ calls[Len(calls)].ok => Gone(result.item.receipt_handle)

\* one store returned true and the other false: a failure was reported and the
\* message left the queue
C6_Witness ==
    /\ ProcessedQueueItem
    /\ result.item.request.type = "update"
    /\ result.dynamo_success /\ ~result.s3_success
    /\ result.report = "failure"
    /\ Gone(result.item.receipt_handle)

(***************************************************************************)
(* C5: after a create with a valid payload (label and description present, *)
(* attribute names distinct from each other and from the four fields of    *)
(* the record) has been processed, the bucket holds the request payload at *)
(* widgets/{slug(owner)}/{widgetId} and the table holds, under             *)
(* (widgetId, owner), a record with widget_id, owner, label, description   *)
(* and one field per otherAttributes pair.                                 *)
(***************************************************************************)
ReservedFields == {"widget_id", "owner", "label", "description"}

ValidPayload(r) ==
    LET attrs == OtherAttributes(r)
    IN  /\ {"label", "description"} \subseteq DOMAIN r
        /\ \A i \in 1..Len(attrs) : attrs[i].name \notin ReservedFields
        /\ \A i, j \in 1..Len(attrs) : i # j => attrs[i].name # attrs[j].name

C5_CreateStoresBlobAndRecord ==
    ( /\ Processed
      /\ result.item.request.type = "create"
      /\ ~result.raised
      /\ ValidPayload(result.item.request) ) =>
        LET r == result.item.request
            attrs == OtherAttributes(r)
        IN  /\ BlobKey(r) \in DOMAIN bucket
            /\ bucket[BlobKey(r)] = JsonDumps(r)
            /\ <<r.widgetId, r.owner>> \in DOMAIN table
            /\ LET item == table[<<r.widgetId, r.owner>>]
               IN  /\ DOMAIN item =
                        ReservedFields \cup { attrs[i].name : i \in 1..Len(attrs) }
                   /\ item["widget_id"] = r.widgetId
                   /\ item["owner"] = r.owner
                   /\ item["label"] = r.label
                   /\ item["description"] = r.description
                   /\ \A i \in 1..Len(attrs) : item[attrs[i].name] = attrs[i].value

\* a create for owner "J D" with the attribute color has been processed: its
\* blob is at widgets/j-d/1
C5_Witness ==
    /\ Processed
    /\ result.item.request.type = "create"
    /\ ~result.raised
    /\ ValidPayload(result.item.request)
    /\ result.item.request.owner = <<"J", " ", "D">>
    /\ OtherAttributes(result.item.request) # << >>
    /\ <<"w", "i", "d", "g", "e", "t", "s", "/", "j", "-", "d", "/", "1">>
          \in DOMAIN bucket

(***************************************************************************)
(* C8: S3Client.update_widget probes the key first; when the probe fails   *)
(* (the object is absent, or head_object raises) it makes no put_object    *)
(* call, returns false and leaves the bucket as it was; when the probe and *)
(* the write succeed it has written the key once and returns true; no      *)
(* exception of it reaches process_widget_request.                         *)
(***************************************************************************)
C8_BlobUpdateProbesFirst ==
    [][ (Process /\ Req.type = "update") =>
          LET key == BlobKey(Req)
              probes == { i \in 1..Len(calls') : calls'[i].op = "head_object" }
              puts == { i \in 1..Len(calls') : calls'[i].op = "put_object" }
          IN  /\ probes = {1}
              /\ calls'[1].arg = key
              /\ key \notin DOMAIN bucket => ~calls'[1].ok
              /\ ~calls'[1].ok =>
                    /\ puts = {}
                    /\ ~result'.s3_success
                    /\ bucket' = bucket
              /\ calls'[1].ok => (puts = {2} /\ calls'[2].arg = key)
              /\ (calls'[1].ok /\ calls'[2].ok) =>
                    /\ result'.s3_success
                    /\ bucket' = [k \in DOMAIN bucket |->
                                    IF k = key THEN JsonDumps(Req) ELSE bucket[k]]
              /\ (calls'[1].ok /\ ~calls'[2].ok) =>
                    /\ ~result'.s3_success
                    /\ bucket' = bucket
              /\ result'.raised => calls'[Len(calls')].op = "delete_message"
      ]_vars

\* an update for a widget whose blob is absent has been processed: the probe
\* failed and no write followed
C8_Witness ==
    /\ Processed
    /\ result.item.request.type = "update"
    /\ BlobKey(result.item.request) \notin DOMAIN bucket
    /\ calls[1].op = "head_object" /\ ~calls[1].ok
    /\ CallsOf("put_object") = {}
    /\ ~result.s3_success

(***************************************************************************)
(* C9: S3Client.get_next_widget_request on an empty bucket returns nothing *)
(* and changes nothing; on a non-empty bucket, unless a backend call       *)
(* raises, it returns the request stored under one key and removes that    *)
(* key and no other.                                                       *)
(***************************************************************************)
C9_BucketFetchRemovesOneKey ==
    [][ FetchS3 =>
          /\ table' = table
          /\ DOMAIN bucket = {} => (bucket' = bucket /\ pc' # "process")
          /\ pc' = "process" =>
                \E key \in DOMAIN bucket :
                    /\ bucket' = [k \in DOMAIN bucket \ {key} |-> bucket[k]]
                    /\ request' = [request |-> JsonLoads(bucket[key])]
          /\ (DOMAIN bucket # {} /\ pc' # "process") =>
                (pc' = "crashed" /\ bucket' = bucket)
      ]_vars

\* a request has been fetched from a bucket that held two: the other one is
\* still there
C9_Witness ==
    /\ sourceKind = "s3"
    /\ pc = "process"
    /\ Succeeded("delete_object")
    /\ calls[Len(calls)].arg \notin DOMAIN bucket
    /\ DOMAIN bucket # {}

(***************************************************************************)
(* C10: in every reachable state of the bucket and the table, processing   *)
(* a request twice, every backend call succeeding, leaves them as          *)
(* processing it once does.                                                *)
(***************************************************************************)
\* the bucket and the table after process_widget_request(r), no call raising
Apply(r, b, t) ==
    LET w == ProcessWidgetRequest(World(b, t, Empty, {}, << >>),
                                  [request |-> r], FALSE, AllOk)
    IN  <<w.bucket, w.table>>

C10_ReapplyIdempotent ==
    \A r \in Requests :
        LET once == Apply(r, bucket, table)
        IN  Apply(r, once[1], once[2]) = once

\* an update has been processed, every call succeeding, and processing it
\* again would leave both stores as they are
C10_Witness ==
    /\ Processed
    /\ result.item.request.type = "update"
    /\ result.report = "success"
    /\ \A i \in 1..Len(calls) : calls[i].ok
    /\ Apply(result.item.request, bucket, table) = <<bucket, table>>

(***************************************************************************)
(* C11: processing a request whose type is not create, update or delete    *)
(* makes no call to the bucket or the table and leaves both as they were;  *)
(* with the queue source its only call is delete_message with the          *)
(* message's receipt handle, after which, the call returning, the message  *)
(* has left the queue.                                                     *)
(***************************************************************************)
C11_UnknownKindTouchesNoStore ==
    [][ (Process /\ Req.type \notin {"create", "update", "delete"}) =>
          /\ bucket' = bucket
          /\ table' = table
          /\ sourceKind # "sqs" => calls' = << >>
          /\ sourceKind = "sqs" =>
                /\ Len(calls') = 1
                /\ calls'[1].op = "delete_message"
                /\ calls'[1].arg = request.receipt_handle
                /\ calls'[1].ok =>
                      \A m \in DOMAIN queue' :
                          ReceiptHandle(m) # request.receipt_handle
      ]_vars

\* a list request from the queue has been processed while the table held a
\* record: the message is gone
C11_Witness ==
    /\ ProcessedQueueItem
    /\ result.item.request.type = "list"
    /\ DOMAIN table # {}
    /\ AcksOfItem = {1}
    /\ Gone(result.item.receipt_handle)

(***************************************************************************)
(* C12: the owner normalization applied by process_widget_request is       *)
(* defined for every owner string (the first store call is made with the   *)
(* key built from it), its result holds no space and no upper-case letter, *)
(* normalizing the result again gives the same string, and "John Doe"      *)
(* becomes "john-doe".                                                     *)
(***************************************************************************)
\* the owner component of the key widgets/{owner}/{widget_id}
KeyOwner(key, widget_id) == SubSeq(key, 9, Len(key) - Len(widget_id) - 1)

C12_SlugTotalIdempotent ==
    (Processed /\ result.item.request.type = "create") =>
        /\ calls # << >>
        /\ calls[1].op = "put_object"
        /\ LET r == result.item.request
               o == KeyOwner(calls[1].arg, r.widgetId)
           IN  /\ calls[1].arg = S3Key(o, r.widgetId)
               /\ Len(o) = Len(r.owner)
               /\ \A i \in 1..Len(o) : o[i] \notin {" ", "J", "D"}
               /\ Slug(o) = o
               /\ r.owner = JohnDoe =>
                     o = <<"j", "o", "h", "n", "-", "d", "o", "e">>

\* the create for owner "John Doe" has been processed: its first call went to
\* widgets/john-doe/1
C12_Witness ==
    /\ Processed
    /\ result.item.request.owner = JohnDoe
    /\ calls # << >>
    /\ calls[1].arg = <<"w", "i", "d", "g", "e", "t", "s", "/", "j", "o", "h", "n",
                        "-", "d", "o", "e", "/", "1">>

(***************************************************************************)
(* C13 as stated: with the bucket as the source, a widget blob at          *)
(* widgets/{owner}/{id} leaves the bucket only when a Delete for that      *)
(* widget is processed, and get_next_widget_request never downloads or     *)
(* deletes a key under widgets/.                                           *)
(***************************************************************************)
\* a key S3Client.save_widget writes
IsWidgetKey(key) ==
    /\ Len(key) >= 8
    /\ SubSeq(key, 1, 8) = <<"w", "i", "d", "g", "e", "t", "s", "/">>

C13_BlobStaysUntilDeleted ==
    [][ sourceKind = "s3" =>
          /\ \A k \in DOMAIN bucket :
                (IsWidgetKey(k) /\ k \notin DOMAIN bucket') =>
                    (Process /\ Req.type = "delete" /\ BlobKey(Req) = k)
          /\ FetchS3 =>
                \A i \in 1..Len(calls') :
                    calls'[i].op \in {"get_object", "delete_object"} =>
                        ~IsWidgetKey(calls'[i].arg)
      ]_vars

(***************************************************************************)
(* C14: with the queue source and no exception leaving a call of run(),    *)
(* every message in the queue eventually leaves it, which it does only     *)
(* through the delete_message that ends the processing of that message,    *)
(* the one get_next_widget_request returned last; run() is always at its   *)
(* fetch or at its process step; and a fetch that returns nothing calls    *)
(* receive_message only, leaves bucket and table alone and is followed by  *)
(* the next fetch.  A message id is used once and a message that left the  *)
(* queue does not come back, so "is outside the queue again and again"     *)
(* says that a message in the queue eventually leaves it.                  *)
(***************************************************************************)
C14_QueueEventuallyDrained ==
    /\ \A m \in 1..MaxMsgs : []<>(m \notin DOMAIN queue)
    /\ [][ \A m \in DOMAIN queue :
              m \notin DOMAIN queue' =>
                  /\ Process
                  /\ returned[Len(returned)] = request
                  /\ request.receipt_handle = ReceiptHandle(m)
                  /\ calls'[Len(calls')] =
                        [op |-> "delete_message", arg |-> ReceiptHandle(m),
                         ok |-> TRUE]
          ]_vars
    /\ [](pc \in {"fetch", "process"})
    /\ [][ (FetchSQS /\ IsNone(request')) =>
              /\ pc' = "fetch"
              /\ bucket' = bucket
              /\ table' = table
              /\ \A i \in 1..Len(calls') : calls'[i].op = "receive_message"
          ]_vars

\* every message sent has been processed and the loop has found the queue
\* empty
C14_Witness ==
    /\ sourceKind = "sqs"
    /\ nsent >= 2
    /\ DOMAIN queue = {}
    /\ pc = "fetch"
    /\ IsNone(request)
    /\ Len(calls) = 1
    /\ calls[1].op = "receive_message" /\ calls[1].ok

(***************************************************************************)
(* C15: a create calls put_object of the blob store first and, that call   *)
(* returning, put_item of the record store second; it never calls          *)
(* delete_object, so when put_item raises after put_object returned the    *)
(* blob written by this create is in the bucket, the table is as it was    *)
(* and the exception leaves process_widget_request.                        *)
(***************************************************************************)
C15_CreateBlobThenRecordNoRollback ==
    [][ (Process /\ Req.type = "create") =>
          LET puts == { i \in 1..Len(calls') : calls'[i].op = "put_object" }
              items == { i \in 1..Len(calls') : calls'[i].op = "put_item" }
          IN  /\ puts = {1}
              /\ calls'[1].arg = BlobKey(Req)
              /\ items = IF calls'[1].ok THEN {2} ELSE {}
              /\ \A i \in 1..Len(calls') : calls'[i].op # "delete_object"
              /\ calls'[1].ok =>
                    /\ bucket' = PutObject(bucket, BlobKey(Req), JsonDumps(Req))
                    /\ calls'[2].arg = RecordKey(Req)
              /\ ~calls'[1].ok => (bucket' = bucket /\ table' = table)
              /\ (calls'[1].ok /\ ~calls'[2].ok) =>
                    /\ table' = table
                    /\ result'.raised
                    /\ Len(calls') = 2
      ]_vars

\* put_item raised after put_object returned: the blob is there, the record is
\* not
C15_Witness ==
    /\ Processed
    /\ result.item.request.type = "create"
    /\ result.raised
    /\ Len(calls) = 2
    /\ calls[1].ok /\ calls[2].op = "put_item" /\ ~calls[2].ok
    /\ BlobKey(result.item.request) \in DOMAIN bucket
    /\ RecordKey(result.item.request) \notin DOMAIN table

(***************************************************************************)
(* C19: a delete calls delete_object of the blob store first and           *)
(* delete_item of the record store second, the second also when the first  *)
(* failed; each store reports true exactly when its call returned and      *)
(* false when it raised, leaving its store as it was, and no exception of  *)
(* the two calls leaves process_widget_request.                            *)
(***************************************************************************)
C19_DeleteAttemptsBothStores ==
    [][ (Process /\ Req.type = "delete") =>
          /\ Len(calls') >= 2
          /\ calls'[1].op = "delete_object"
          /\ calls'[1].arg = BlobKey(Req)
          /\ calls'[2].op = "delete_item"
          /\ calls'[2].arg[1] = Req.widgetId
          /\ \A i \in 3..Len(calls') : calls'[i].op = "delete_message"
          /\ result'.s3_success = calls'[1].ok
          /\ result'.dynamo_success = calls'[2].ok
          /\ ~calls'[1].ok => bucket' = bucket
          /\ ~calls'[2].ok => table' = table
          /\ result'.raised => (Len(calls') = 3 /\ ~calls'[3].ok)
      ]_vars

\* the blob store reported false and the record store was called all the same
\* and reported true
C19_Witness ==
    /\ Processed
    /\ result.item.request.type = "delete"
    /\ ~result.raised
    /\ calls[1].op = "delete_object" /\ ~calls[1].ok
    /\ calls[2].op = "delete_item" /\ calls[2].ok
    /\ ~result.s3_success /\ result.dynamo_success

(***************************************************************************)
(* C16: with the queue source, when a store call of a create raises, the   *)
(* exception leaves process_widget_request and run(), delete_message is    *)
(* not called and the message is still in the queue; the worker started    *)
(* again, the message is delivered again and processed to the end, which   *)
(* takes it out of the queue.                                              *)
(***************************************************************************)
\* a store call of the step just taken raised
StoreCallRaised ==
    \E i \in 1..Len(calls) :
        calls[i].op \in {"put_object", "put_item"} /\ ~calls[i].ok

\* the create of message m has just ended run() with an exception
CreateCrashed(m) ==
    /\ pc = "crashed"
    /\ ProcessedQueueItem
    /\ result.item.receipt_handle = ReceiptHandle(m)
    /\ result.item.request.type = "create"
    /\ StoreCallRaised

C16_CreateFailureLeavesMessage ==
    /\ [][ (Process /\ Req.type = "create" /\ StoreCallRaised') =>
              /\ result'.raised
              /\ pc' = "crashed"
              /\ \A i \in 1..Len(calls') : calls'[i].op # "delete_message"
              /\ ~calls'[Len(calls')].ok
              /\ queue' = queue
              /\ \E m \in DOMAIN queue' :
                    ReceiptHandle(m) = request.receipt_handle
          ]_vars
    /\ \A m \in 1..MaxMsgs :
          CreateCrashed(m) ~>
              ( /\ ProcessedQueueItem
                /\ result.item.receipt_handle = ReceiptHandle(m)
                /\ ~result.raised
                /\ m \notin DOMAIN queue )

\* the only message sent is a create whose put_item raised the first time; it
\* has been delivered again and now its put_object raised: the blob of the
\* first attempt is in the bucket and the message still in the queue
C16_Witness ==
    /\ nsent = 1
    /\ CreateCrashed(1)
    /\ Len(calls) = 1 /\ ~calls[1].ok
    /\ BlobKey(result.item.request) \in DOMAIN bucket
    /\ 1 \in DOMAIN queue

(***************************************************************************)
(* C17: when the worker is started again, after a crash or a kill at any   *)
(* point, its look-ahead buffer is empty and the queue is as it was; a     *)
(* message leaves the queue only through the acknowledgement that ends the *)
(* processing of that very message, so every message received and not      *)
(* acknowledged is still in the queue; and a message that was received,    *)
(* is not acknowledged and is not held by the worker any more is returned  *)
(* by a later get_next_widget_request.                                     *)
(***************************************************************************)
\* message m was received, is not acknowledged, and the worker holds it
\* neither in its buffer nor as the request it is processing
ReceivedAndDropped(m) ==
    /\ m \in DOMAIN queue
    /\ m \in invisible
    /\ pc = "fetch"
    /\ message_cache = << >>

C17_RestartLosesBufferNotMessages ==
    /\ [][ (Restart \/ KillAndRestart) =>
              (message_cache' = << >> /\ queue' = queue) ]_vars
    /\ [][ \A m \in DOMAIN queue :
              m \notin DOMAIN queue' =>
                  /\ Process
                  /\ request.receipt_handle = ReceiptHandle(m)
                  /\ \A op \in FirstStoreCalls(Req.type) :
                        \E i \in 1..(Len(calls') - 1) : calls'[i].op = op
                  /\ calls'[Len(calls')].op = "delete_message"
          ]_vars
    /\ [](invisible \subseteq DOMAIN queue)
    /\ \A m \in 1..MaxMsgs :
          ReceivedAndDropped(m) ~>
              (pc = "process" /\ request.receipt_handle = ReceiptHandle(m))

\* a batch of two messages was received and the worker was killed with the
\* second one in its buffer: the worker is back at its fetch with an empty
\* buffer and both messages are in the queue, received and not acknowledged
C17_Witness ==
    /\ sourceKind = "sqs"
    /\ pc = "fetch"
    /\ message_cache = << >>
    /\ IsNone(request)
    /\ Len(calls) = 1 /\ calls[1].op = "receive_message" /\ calls[1].ok
    /\ invisible = {1, 2}
    /\ DOMAIN queue = {1, 2}

(***************************************************************************)
(* C18 as stated: with the bucket as the source, the key a request was     *)
(* fetched from is gone from the bucket when process_widget_request        *)
(* starts, delete_message is never called, and a request whose processing  *)
(* failed (an exception left it, or a failure was reported) is not         *)
(* delivered again: unless the producer has uploaded the same request once *)
(* more, the next fetch does not return it.                                *)
(***************************************************************************)
\* the processing of the last request failed
ProcessingFailed ==
    /\ Processed
    /\ result.raised \/ result.report = "failure"

\* the producer has an object with request r waiting in the bucket
UploadPending(r) ==
    \E n \in 1..nsent :
        /\ RequestKey(n) \in DOMAIN bucket
        /\ JsonLoads(bucket[RequestKey(n)]) = r

C18_FailedBucketRequestNotRedelivered ==
    /\ []( (sourceKind = "s3" /\ pc = "process") =>
              /\ calls[Len(calls)].op = "delete_object"
              /\ calls[Len(calls)].ok
              /\ calls[Len(calls)].arg \notin DOMAIN bucket )
    /\ []( sourceKind = "s3" => CallsOf("delete_message") = {} )
    /\ [][ ( /\ FetchS3
              /\ pc' = "process"
              /\ ProcessingFailed
              /\ ~UploadPending(result.item.request) )
            => request'.request # result.item.request
          ]_vars

====
